---- MODULE Spec2Model ----
(***************************************************************************)
(* Model of the taxi trip data pipeline (package phila_taxitrips).         *)
(*                                                                         *)
(*   Spec           upload / todb_upsert / db_conn against the trips table *)
(*   SpecAddFields  AddFieldsView / iteraddfields over a source table      *)
(*   SpecCat        fromcsvs / petl.cat over the files of one call         *)
(*   SpecFinder     the finders of find_feature and their shared cache     *)
(*   SpecStatistics filter_outliers and validate_trip_lengths              *)
(*   SpecAnon       update_anon against the trips and mapping tables       *)
(*   SpecNormalize  the general times of normalize                         *)
(*   SpecTaxi       the line loop of the taxi2015 scripts                  *)
(***************************************************************************)
EXTENDS Integers, Sequences, FiniteSets, TLC

(***************************************************************************)
(* Bounds of the model.                                                    *)
(***************************************************************************)
MaxUploads == 2      \* completed upload() calls in one behaviour
MaxTotalRows == 3    \* CSV data rows read over all upload() calls
MaxGroup == 2        \* largest group_size
MaxFields == 2       \* fields given to one addfields call
MaxSrcRows == 2      \* data rows of the source table of addfields
MaxFiles == 2        \* files matched by the patterns of one fromcsvs call
MaxLines == 2        \* lines of a CSV file after its first line
MaxLookups == 2      \* calls of finders made in one process
MaxSample == 5       \* values of a sample given to filter_outliers
MaxTrips == 4        \* data rows of the CSV file given to validate_trip_lengths
MaxRuns == 2         \* runs of update_anon in one behaviour
MaxAnonTrips == 3    \* rows of the trips table that update_anon reads
MaxTaxiLines == 4    \* lines of data/merged_trips.csv read by a taxi2015 script

(***************************************************************************)
(* Small helpers on sequences.                                             *)
(***************************************************************************)
Range(s) == {s[i] : i \in 1..Len(s)}

RECURSIVE Flatten(_)
Flatten(ss) == IF ss = <<>> THEN <<>> ELSE Head(ss) \o Flatten(Tail(ss))

RECURSIVE SeqsUpTo(_, _)
SeqsUpTo(S, n) ==
  IF n = 0 THEN {<<>>}
  ELSE LET shorter == SeqsUpTo(S, n - 1)
       IN  shorter \cup {Append(s, x) : s \in {t \in shorter : Len(t) = n - 1}, x \in S}

(***************************************************************************)
(* The trips table.  `columns` is table.fieldnames(); a row is a tuple     *)
(* aligned to it.  The four identity columns are those of todb_upsert; one *)
(* non-identity column stands for the seventeen others of RAW_COLUMNS_DB.  *)
(* Cells are CSV text.  The store (Oracle: SELECT ... FROM DUAL) keeps the *)
(* empty string as NULL, so "" is the NULL of the store.                   *)
(***************************************************************************)
columns == <<"Medallion", "Chauffeur_No", "Meter_On_Datetime", "Meter_Off_Datetime", "Fare">>

id_columns == {"Medallion", "Chauffeur_No", "Meter_On_Datetime", "Meter_Off_Datetime"}

non_id_columns == Range(columns) \ id_columns

ColumnValues ==
  [Medallion |-> {"", "M1", "M2"}, Chauffeur_No |-> {"C1"},
   Meter_On_Datetime |-> {"T1"}, Meter_Off_Datetime |-> {"T2"},
   Fare |-> {"1.00", "2.00"}]

CsvRows ==
  {<<m, c, t1, t2, f>> : m \in ColumnValues.Medallion, c \in ColumnValues.Chauffeur_No,
                         t1 \in ColumnValues.Meter_On_Datetime,
                         t2 \in ColumnValues.Meter_Off_Datetime, f \in ColumnValues.Fare}

\* The CSV files an upload can read.
Tables == SeqsUpTo(CsvRows, MaxTotalRows)

IsNull(v) == v = ""

\* SQL `a = b`: true only for two non-NULL equal values.
SqlEq(a, b) == ~IsNull(a) /\ ~IsNull(b) /\ a = b

\* The ON clause joined with OR instead of AND.
on_clause_or(orig, new) ==
  \E i \in 1..Len(columns) : columns[i] \in id_columns /\ SqlEq(orig[i], new[i])

\* The ON clause with a comparison under which two NULLs are equal.
on_clause_nulls_equal(orig, new) ==
  \A i \in 1..Len(columns) : columns[i] \in id_columns => orig[i] = new[i]

\* ON (orig.c = new.c AND ...) over id_columns
on_clause(orig, new) ==
  \A i \in 1..Len(columns) : columns[i] \in id_columns => SqlEq(orig[i], new[i])

\* WHEN MATCHED THEN UPDATE SET orig.c = new.c over non_id_columns
update_clause(orig, new) ==
  [i \in 1..Len(columns) |-> IF columns[i] \in non_id_columns THEN new[i] ELSE orig[i]]

\* WHEN NOT MATCHED THEN INSERT (orig.c, ...) VALUES (new.c, ...)
insert_clause(new) == [i \in 1..Len(columns) |-> new[i]]

\* the tables of the store an upload can be asked to load
TableNames == {"taxi_trips", "taxi_trips_2016"}

\* petl.todb_upsert(wrap_table(t), 'taxi_trips', db, group_size=group_size)
todb_upsert_table_name(table_name_arg) == "taxi_trips"

\* One execution of the MERGE statement with one row bound.
merge(tbl, new) ==
  IF \E i \in 1..Len(tbl) : on_clause(tbl[i], new)
  THEN [i \in 1..Len(tbl) |->
          IF on_clause(tbl[i], new) THEN update_clause(tbl[i], new) ELSE tbl[i]]
  ELSE Append(tbl, insert_clause(new))

(***************************************************************************)
(* grouper(n, iterable, fillvalue=None): zip_longest over n references to  *)
(* one iterator.  The fill value None is modelled as the empty tuple: both *)
(* are falsy in Python, and a row tuple of one or more cells is truthy.    *)
(***************************************************************************)
None == <<>>

Truthy(x) == Len(x) > 0

\* zip in place of zip_longest: the incomplete last group is dropped.
RECURSIVE grouper_zip(_, _)
grouper_zip(n, iterable) ==
  IF n = 0 \/ Len(iterable) < n THEN <<>>
  ELSE <<SubSeq(iterable, 1, n)>> \o grouper_zip(n, SubSeq(iterable, n + 1, Len(iterable)))

RECURSIVE grouper(_, _)
grouper(n, iterable) ==
  IF n = 0 \/ iterable = <<>> THEN <<>>
  ELSE IF Len(iterable) >= n
       THEN <<SubSeq(iterable, 1, n)>> \o grouper(n, SubSeq(iterable, n + 1, Len(iterable)))
       ELSE <<iterable \o [i \in 1..(n - Len(iterable)) |-> None]>>

\* row_group = filter(None, row_group); list_of_rows = list(row_group)
RECURSIVE list_of_rows(_)
list_of_rows(row_group) ==
  IF row_group = <<>> THEN <<>>
  ELSE IF Truthy(Head(row_group))
       THEN <<Head(row_group)>> \o list_of_rows(Tail(row_group))
       ELSE list_of_rows(Tail(row_group))

\* table.values(columns): the data rows as tuples of the named columns
values(t) == [r \in 1..Len(t) |-> [i \in 1..Len(columns) |-> t[r][i]]]

\* db_conn with the save in a finally block: it commits when the body raises.
db_conn_exit_store_finally(raised, st, wk) == wk

\* db_conn: what runs after the yield.  The generator has no try/finally, so
\* when the body raises neither db.save() nor db.close() is executed.
db_conn_exit_store(raised, st, wk) == IF raised THEN st ELSE wk

db_conn_exit_conn(raised) == IF raised THEN "open" ELSE "closed"

(***************************************************************************)
(* addfields.  A header is a tuple of names, a row a tuple of cells.  The  *)
(* cell of data row r, column c of the source is the number 10 * r + c, so *)
(* that every cell is told from every other; rows may be shorter or longer *)
(* than the header.                                                        *)
(***************************************************************************)
SourceHeader == <<"a", "b">>

\* None, the default of the missing argument of AddFieldsView
missing == 0

FixedValue == 42

\* names of the fields of one call, by position
FieldNames == <<"x", "y", "z", "w">>

SourceRow(r, len) == [c \in 1..len |-> 10 * r + c]

RowLengths == (Len(SourceHeader) - 1)..(Len(SourceHeader) + 1)

SourceTables ==
  {[hdr |-> SourceHeader, rows |-> [r \in 1..Len(lens) |-> SourceRow(r, lens[r])]] :
     lens \in SeqsUpTo(RowLengths, MaxSrcRows)}

\* FieldDefinition.value: a fixed scalar, or a function of the record that
\* returns the record's value of one named field (lambda rec: rec[reads]).
\* A function may fail on one value of that field (fails_on = <<v>>, as
\* int() or a division does): it then raises on the rows that hold v there.
FieldValues ==
  {[callable |-> FALSE, fixed |-> FixedValue, reads |-> "", fails_on |-> <<>>],
   [callable |-> TRUE, fixed |-> 0, reads |-> "a", fails_on |-> <<>>],
   [callable |-> TRUE, fixed |-> 0, reads |-> "x", fails_on |-> <<>>],
   [callable |-> TRUE, fixed |-> 0, reads |-> "a", fails_on |-> <<SourceRow(2, 1)[1]>>]}

\* FieldDefinition.index: <<>> is None (the default), <<i>> the index i
FieldIndices == {<<>>, <<1>>, <<-1>>, <<7>>}

\* field(name, value=None, index=None)
FieldDefinition(name, value, index) == [name |-> name, value |-> value, index |-> index]

FieldLists ==
  {[i \in 1..Len(vi) |-> FieldDefinition(FieldNames[i], vi[i][1], vi[i][2])] :
     vi \in SeqsUpTo(FieldValues \X FieldIndices, MaxFields)}

\* list.insert(index, x)
insert(list, index, x) ==
  LET n == Len(list)
      at == IF index < 0 THEN (IF index + n < 0 THEN 0 ELSE index + n)
            ELSE (IF index > n THEN n ELSE index)
  IN  SubSeq(list, 1, at) \o <<x>> \o SubSeq(list, at + 1, n)

\* stack(source) without padding and trimming
stack_ragged(source, miss) == source

\* petl.stack(source, missing=missing) of one table: every row is trimmed
\* and padded to the length of the header.
stack(source, miss) ==
  LET n == Len(source.hdr)
  IN  [hdr |-> source.hdr,
       rows |-> [r \in 1..Len(source.rows) |->
                   [c \in 1..n |-> IF c <= Len(source.rows[r]) THEN source.rows[r][c]
                                   ELSE miss]]]

\* str(name) for a header of names that are strings
text_type(name) == name

\* the default index taken from the source header
default_index_of_source(hdr, outhdr) == Len(hdr)

\* index = len(outhdr) if field.index is None
default_index(hdr, outhdr) == Len(outhdr)

\* determine field indices and construct output fields, from field i on
RECURSIVE resolve(_, _, _, _, _)
resolve(hdr, fields, i, outhdr, indices) ==
  IF i > Len(fields) THEN [outhdr |-> outhdr, indices |-> indices]
  ELSE LET index == IF fields[i].index = <<>> THEN default_index(hdr, outhdr)
                    ELSE fields[i].index[1]
       IN  resolve(hdr, fields, i + 1, insert(outhdr, index, fields[i].name),
                   Append(indices, index))

\* the record bound to the output row and header as built so far
Record_of_outrow(row, flds, outrow, outflds) == [flds |-> outflds, vals |-> outrow]

\* row = Record(row, flds): the source row bound to the source header
Record(row, flds, outrow, outflds) == [flds |-> flds, vals |-> row]

\* the fields paired with the indices in the opposite order
zip_index_reversed(indices, i) == indices[Len(indices) + 1 - i]

\* for field, index in zip(fields, indices): the index that goes with field i
zip_index(indices, i) == indices[i]

IndexOf(seq, x) == CHOOSE i \in 1..Len(seq) : seq[i] = x /\ \A h \in 1..(i - 1) : seq[h] # x

\* the loop over zip(fields, indices) for one row, from field i on.  A
\* function that reads a name the record does not have raises, and so does
\* a function on a value it fails on; nothing in the loop catches it.
RECURSIVE add_to_row(_, _, _, _, _, _, _)
add_to_row(row, flds, fields, indices, i, outrow, calls) ==
  IF i > Len(fields) THEN [raised |-> FALSE, outrow |-> outrow, calls |-> calls]
  ELSE LET value == fields[i].value
       IN  IF value.callable
           THEN LET outflds == resolve(flds, SubSeq(fields, 1, i - 1), 1, flds, <<>>).outhdr
                    rec == Record(row, flds, outrow, outflds)
                    call == [field |-> i, flds |-> rec.flds, vals |-> rec.vals]
                IN  IF /\ value.reads \in Range(rec.flds)
                       /\ <<rec.vals[IndexOf(rec.flds, value.reads)]>> # value.fails_on
                    THEN add_to_row(row, flds, fields, indices, i + 1,
                                    insert(outrow, zip_index(indices, i),
                                           rec.vals[IndexOf(rec.flds, value.reads)]),
                                    Append(calls, call))
                    ELSE [raised |-> TRUE, outrow |-> outrow, calls |-> Append(calls, call)]
           ELSE add_to_row(row, flds, fields, indices, i + 1,
                           insert(outrow, zip_index(indices, i), value.fixed), calls)

(***************************************************************************)
(* fromcsvs and petl.cat.  A CSV file is a sequence of lines, a line a     *)
(* tuple of cells.  Verifone files have no header line and are read with   *)
(* fieldnames; CMT files begin with their header line.  The cell of line l *)
(* and column c of file f is the number 100 * f + 10 * l + c.              *)
(***************************************************************************)
\* the header every file of one fromcsvs call is given or begins with
CsvHeader == <<"a", "b">>

CsvLineLengths == (Len(CsvHeader) - 1)..(Len(CsvHeader) + 1)

CsvLine(f, l, len) == [c \in 1..len |-> 100 * f + 10 * l + c]

\* petl.fromcsv(fname): the first line is the header, the others the rows
fromcsv(file) == [hdr |-> Head(file), rows |-> Tail(file)]

\* t_partial.pushheader(fieldnames): the names are put above the lines of the table,
\* and the line that was the header is the first data row
pushheader(tbl, header) == [hdr |-> header, rows |-> <<tbl.hdr>> \o tbl.rows]

\* t_partial.setheader(fieldnames): the names replace the header line of the table
setheader(tbl, header) == [hdr |-> header, rows |-> tbl.rows]

\* the output header of petl.cat: the fields of the first table, then the
\* fields of the second not yet among them
RECURSIVE cat_header(_, _)
cat_header(outhdr, hdr) ==
  IF hdr = <<>> THEN outhdr
  ELSE cat_header(IF Head(hdr) \in Range(outhdr) THEN outhdr ELSE Append(outhdr, Head(hdr)),
                  Tail(hdr))

\* one data row of petl.cat: for each output field the row's value under that
\* name, or the missing value when the row is short or has no such field
cat_row(outhdr, hdr, row) ==
  [c \in 1..Len(outhdr) |->
     IF outhdr[c] \in Range(hdr) /\ IndexOf(hdr, outhdr[c]) <= Len(row)
     THEN row[IndexOf(hdr, outhdr[c])]
     ELSE missing]

\* petl.cat(t1, t2)
cat(t1, t2) ==
  LET outhdr == cat_header(t1.hdr, t2.hdr)
  IN  [hdr |-> outhdr,
       rows |-> [r \in 1..Len(t1.rows) |-> cat_row(outhdr, t1.hdr, t1.rows[r])]
                \o [r \in 1..Len(t2.rows) |-> cat_row(outhdr, t2.hdr, t2.rows[r])]]

\* fromcsvs with the tables concatenated the other way round
fromcsvs_cat_swapped(tbl, t_partial) ==
  IF tbl = <<>> THEN <<t_partial>> ELSE <<cat(t_partial, tbl[1])>>

\* t = t_partial if t is None else t.cat(t_partial); <<>> is None
fromcsvs_cat(tbl, t_partial) ==
  IF tbl = <<>> THEN <<t_partial>> ELSE <<cat(tbl[1], t_partial)>>

\* if fieldnames is not None: t_partial = t_partial.setheader(fieldnames)
fromcsvs_partial(file, header) ==
  IF header # <<>> THEN setheader(fromcsv(file), header[1]) ELSE fromcsv(file)

(***************************************************************************)
(* find_feature.  Coordinates are counted in steps of a third of the       *)
(* rounding unit 10^-ndigits, so that no value lies halfway between two    *)
(* rounded values.  A cell of a row is a number written as text, another   *)
(* text, or None (the missing value of a short row).  A polygon is a       *)
(* rectangle: shape.bounds is the closed rectangle, shape.contains is true *)
(* of the points of its interior.                                          *)
(***************************************************************************)
\* the rounding unit 10^-ndigits, in steps
Unit == 3

Cell(kind, text, num) == [kind |-> kind, text |-> text, num |-> num]

LatCells ==
  {Cell("num", "", n) : n \in 0..(2 * Unit)}
    \cup {Cell("text", x, 0) : x \in {"", "abc", "nan", "inf"}}
    \cup {Cell("none", "", 0)}

LngCells ==
  {Cell("num", "", n) : n \in {0, Unit + 1, Unit + 2}}
    \cup {Cell("text", x, 0) : x \in {"", "nan"}}
    \cup {Cell("none", "", 0)}

\* float(x): the number, or the exception raised
float(x) ==
  IF x.kind = "none" THEN [raises |-> "TypeError", kind |-> "", n |-> 0]
  ELSE IF x.kind = "num" THEN [raises |-> "", kind |-> "finite", n |-> x.num]
  ELSE IF x.text \in {"nan", "inf"} THEN [raises |-> "", kind |-> x.text, n |-> 0]
  ELSE [raises |-> "ValueError", kind |-> "", n |-> 0]

\* the digits after ndigits cut off instead of rounded
round_down(x) ==
  IF x.kind = "finite" THEN [kind |-> "finite", n |-> Unit * (x.n \div Unit)]
  ELSE [kind |-> x.kind, n |-> 0]

\* round(x, ndigits) of a float: nan and inf stay what they are
round(x) ==
  IF x.kind = "finite" THEN [kind |-> "finite", n |-> Unit * ((x.n + (Unit \div 2)) \div Unit)]
  ELSE [kind |-> x.kind, n |-> 0]

\* a feature of a collection: OBJECTID and the rectangle of its shape
Feature(coll, objid, lat, lng) == [coll |-> coll, objid |-> objid, lat |-> lat, lng |-> lng]

\* collection, idx = load_shapes(regionfile) of two region files that carry
\* the same version tag; features are listed in the order the index gives them
Collections ==
  [c1 |-> [version |-> "v1",
           features |-> <<Feature("c1", 1, <<-1, 3>>, <<-1, Unit>>),
                          Feature("c1", 2, <<3, 7>>, <<-1, Unit>>)>>],
   c2 |-> [version |-> "v1",
           features |-> <<Feature("c2", 1, <<-1, 7>>, <<-1, 2 * Unit + 1>>)>>]]

CollectionNames == {"c1", "c2"}

\* the closed rectangle feature['shape'].bounds meets the point; a comparison
\* with nan is false, and no rectangle reaches infinity
in_bounds(feature, lat, lng) ==
  /\ lat.kind = "finite" /\ lng.kind = "finite"
  /\ feature.lat[1] <= lat.n /\ lat.n <= feature.lat[2]
  /\ feature.lng[1] <= lng.n /\ lng.n <= feature.lng[2]

\* feature['shape'].contains(point): the point is in the interior
contains(feature, lat, lng) ==
  /\ lat.kind = "finite" /\ lng.kind = "finite"
  /\ feature.lat[1] < lat.n /\ lat.n < feature.lat[2]
  /\ feature.lng[1] < lng.n /\ lng.n < feature.lng[2]

\* the index hands back every feature, whatever its bounds
intersection_all(features, lat, lng) == features

\* idx.intersection((lng, lat, lng, lat), objects=True)
RECURSIVE intersection(_, _, _)
intersection(features, lat, lng) ==
  IF features = <<>> THEN <<>>
  ELSE (IF in_bounds(Head(features), lat, lng) THEN <<Head(features)>> ELSE <<>>)
         \o intersection(Tail(features), lat, lng)

\* the for loop over indexed_items: the first item whose shape contains the
\* point is the result, <<>> is None; tested lists the shapes asked
RECURSIVE search(_, _, _, _)
search(items, lat, lng, tested) ==
  IF items = <<>> THEN [result |-> <<>>, tested |-> tested]
  ELSE IF contains(Head(items), lat, lng)
       THEN [result |-> <<Head(items)>>, tested |-> Append(tested, Head(items))]
       ELSE search(Tail(items), lat, lng, Append(tested, Head(items)))

\* the point searched for is the point of the row, not the rounded one
point_unrounded(raw, rounded) == raw

\* point = Point(lng, lat): lat and lng are the rounded values
point(raw, rounded) == rounded

\* key = (lat, lng, collection['version']).  Two keys with nan in them are
\* never equal: every nan is an object of its own and unequal to itself.
key(lat, lng, version) == [lat |-> lat, lng |-> lng, version |-> version]

\* the cache is never found to hold the key
key_never_in(k0, mapping) == FALSE

\* key in feature_mapping
key_in(k0, mapping) ==
  /\ k0.lat.kind # "nan" /\ k0.lng.kind # "nan"
  /\ \E e \in mapping : e.key = k0

\* equality of two keys as the dictionary sees it
key_eq(k1, k2) ==
  /\ k1.lat.kind # "nan" /\ k1.lng.kind # "nan"
  /\ k1 = k2

\* an outcome is stored only when a feature was found
setitem_found_only(mapping, entry) ==
  IF entry.value = <<>> THEN mapping ELSE mapping \cup {entry}

\* feature_mapping[key] = feature, feature_mapping[key] = None: the entry of
\* an equal key, if there is one, is replaced
setitem(mapping, entry) ==
  {e \in mapping : ~key_eq(e.key, entry.key)} \cup {entry}

(***************************************************************************)
(* filter_outliers.  Trip lengths are whole numbers here.  The median of a *)
(* sample of even size is the mean of its two middle values, so medians    *)
(* are kept doubled (median2 is twice numpy.median) and the median of the  *)
(* doubled distances doubled again: all comparisons are exact.             *)
(***************************************************************************)
abs(x) == IF x < 0 THEN -x ELSE x

\* a sample with one more value put in its place
RECURSIVE insort(_, _)
insort(srt, x) ==
  IF srt = <<>> THEN <<x>>
  ELSE IF x <= Head(srt) THEN <<x>> \o srt
       ELSE <<Head(srt)>> \o insort(Tail(srt), x)

RECURSIVE sorted(_)
sorted(vals) == IF vals = <<>> THEN <<>> ELSE insort(sorted(Tail(vals)), Head(vals))

\* twice numpy.median(vals) of a sample that is not empty
median2(vals) ==
  LET srt == sorted(vals)
      n == Len(vals)
  IN  IF n % 2 = 1 THEN 2 * srt[(n + 1) \div 2] ELSE srt[n \div 2] + srt[n \div 2 + 1]

\* the comparison of lte_mad with half of median_dist
lte_half_mad(dist2, median_dist4, scale) == 4 * dist2 <= median_dist4 * scale

\* the comparison of lte_mad made strict
lt_mad(dist2, median_dist4, scale) == 2 * dist2 < median_dist4 * scale

\* dist <= (median_dist * scale), for twice dist and four times median_dist
lte_mad(dist2, median_dist4, scale) == 2 * dist2 <= median_dist4 * scale

\* filter(lte_mad, values)
RECURSIVE filter_lte_mad(_, _, _, _)
filter_lte_mad(vals, med2, median_dist4, scale) ==
  IF vals = <<>> THEN <<>>
  ELSE (IF lte_mad(abs(2 * Head(vals) - med2), median_dist4, scale)
        THEN <<Head(vals)>> ELSE <<>>)
         \o filter_lte_mad(Tail(vals), med2, median_dist4, scale)

\* filter_outliers(values, scale).  The median of no values is nan, and
\* filter then has no value to ask about.
filter_outliers(vals, scale) ==
  IF vals = <<>> THEN <<>>
  ELSE LET med2 == median2(vals)
           dists2 == [i \in 1..Len(vals) |-> abs(2 * vals[i] - med2)]
           median_dist4 == median2(dists2)
       IN  filter_lte_mad(vals, med2, median_dist4, scale)

\* the values of the samples and the scales tried
SampleValues == {1, 2, 3, 4, 100}

Samples == SeqsUpTo(SampleValues, MaxSample)

Scales == 0..3

(***************************************************************************)
(* validate_trip_lengths.  A data row of the CSV file is the pair of its   *)
(* Trip_Length and Data_Source.  A mean is kept as the fraction sum / n    *)
(* and a standard deviation by its square, the variance, as a fraction:    *)
(* distances and deviations are not negative, so they compare as their     *)
(* squares do.                                                             *)
(***************************************************************************)
TripLengths == {1, 2, 9}

\* the values of Data_Source, in the order a sort puts them
DataSources == <<"cmt", "other", "verifone">>

TripTables == SeqsUpTo(TripLengths \X Range(DataSources), MaxTrips)

RECURSIVE sum(_)
sum(vals) == IF vals = <<>> THEN 0 ELSE Head(vals) + sum(Tail(vals))

\* the Trip_Length values of the rows of one source, in the order of the rows
RECURSIVE lengths_of(_, _)
lengths_of(rows, source) ==
  IF rows = <<>> THEN <<>>
  ELSE (IF Head(rows)[2] = source THEN <<Head(rows)[1]>> ELSE <<>>)
         \o lengths_of(Tail(rows), source)

\* .aggregate('Data_Source', {'Trip_Lengths': ('Trip_Length', tuple)}): one
\* row for each source that has rows, sorted by source
RECURSIVE aggregate(_, _)
aggregate(rows, sources) ==
  IF sources = <<>> THEN <<>>
  ELSE (IF lengths_of(rows, Head(sources)) # <<>>
        THEN <<[Data_Source |-> Head(sources),
                Trip_Lengths |-> lengths_of(rows, Head(sources))]>>
        ELSE <<>>)
         \o aggregate(rows, Tail(sources))

\* numpy.mean(sample) as the fraction num / den
mean(sample) == [num |-> sum(sample), den |-> Len(sample)]

\* the square of numpy.std(sample) as the fraction num / den
std_squared(sample) ==
  LET n == Len(sample)
      squares == [i \in 1..n |-> sample[i] * sample[i]]
  IN  [num |-> n * sum(squares) - sum(sample) * sum(sample), den |-> n * n]

\* .convert('Trip_Lengths', filter_outliers).addfields(mean, std).cutout(...)
statistics(groups_in) ==
  [g \in 1..Len(groups_in) |->
     LET sample == filter_outliers(groups_in[g].Trip_Lengths, 2)
     IN  [Data_Source |-> groups_in[g].Data_Source,
          mean |-> mean(sample), std |-> std_squared(sample)]]

\* dist <= std, for dist = abs(source1.mean - source2.mean)
dist_lte(source1, source2, std) ==
  LET d == source1.mean.num * source2.mean.den - source2.mean.num * source1.mean.den
      dd == source1.mean.den * source2.mean.den
  IN  d * d * std.den <= std.num * dd * dd

\* the larger of the two deviations taken in place of the smaller
dist_lte_max(source1, source2) ==
  dist_lte(source1, source2, source1.std) \/ dist_lte(source1, source2, source2.std)

\* dist <= min(source1.std, source2.std)
dist_lte_min(source1, source2) ==
  dist_lte(source1, source2, source1.std) /\ dist_lte(source1, source2, source2.std)

\* the loop over combinations(table.records(), 2), from the pair (i, j) on:
\* a message is the pair of the names of the two sources
RECURSIVE find_errors(_, _, _)
find_errors(records, i, j) ==
  IF i >= Len(records) THEN <<>>
  ELSE IF j > Len(records) THEN find_errors(records, i + 1, i + 2)
       ELSE (IF dist_lte_min(records[i], records[j]) THEN <<>>
             ELSE <<<<records[i].Data_Source, records[j].Data_Source>>>>)
              \o find_errors(records, i, j + 1)

\* validate_trip_lengths(csvfile): return table, errors
validate_trip_lengths(rows) ==
  LET tbl == statistics(aggregate(rows, DataSources))
  IN  [table |-> tbl, errors |-> find_errors(tbl, 1, 2)]

(***************************************************************************)
(* update_anon.  A row of the trips table is cut down to its values in the *)
(* anonymized columns; "" is NULL.  A mapping table is the sequence of its *)
(* rows in the order of their insertion, each a raw value and the id the   *)
(* auto-incrementing column gave it.                                       *)
(***************************************************************************)
\* column_table_pairs: the anonymized columns, each with an ids table of its own
column_table_pairs == <<"Chauffeur_No", "Medallion">>

AnonValues == [Chauffeur_No |-> {"", "C1"}, Medallion |-> {"", "M1", "M2"}]

AnonRows == [Chauffeur_No : AnonValues.Chauffeur_No, Medallion : AnonValues.Medallion]

\* the sequences that list every member of a set once
RECURSIVE Orderings(_)
Orderings(S) ==
  IF S = {} THEN {<<>>}
  ELSE UNION {{<<x>> \o rest : rest \in Orderings(S \ {x})} : x \in S}

\* the subquery without AND ts.column IS NOT NULL
using_with_null(ts, ids_rows, column_name) ==
  {ts[i][column_name] : i \in {n \in 1..Len(ts) :
      ~\E m \in 1..Len(ids_rows) : SqlEq(ts[n][column_name], ids_rows[m].raw)}}

\* the subquery with WHERE ids.id IS NOT NULL: the values mapped already
using_mapped(ts, ids_rows, column_name) ==
  {ts[i][column_name] : i \in {n \in 1..Len(ts) :
      /\ \E m \in 1..Len(ids_rows) : SqlEq(ts[n][column_name], ids_rows[m].raw)
      /\ ~IsNull(ts[n][column_name])}}

\* SELECT ts.column FROM trips ts LEFT JOIN ids ON ts.column = ids.column
\*   WHERE ids.id IS NULL AND ts.column IS NOT NULL GROUP BY ts.column
using(ts, ids_rows, column_name) ==
  {ts[i][column_name] : i \in {n \in 1..Len(ts) :
      /\ ~\E m \in 1..Len(ids_rows) : SqlEq(ts[n][column_name], ids_rows[m].raw)
      /\ ~IsNull(ts[n][column_name])}}

\* ON (orig.column = new.column) WHEN NOT MATCHED THEN INSERT: the rows of
\* new, in the order the store takes them, each with the next id
RECURSIVE merge_ids(_, _, _)
merge_ids(ids_rows, new, next) ==
  IF new = <<>> THEN ids_rows
  ELSE IF \E m \in 1..Len(ids_rows) : SqlEq(ids_rows[m].raw, Head(new))
       THEN merge_ids(ids_rows, Tail(new), next)
       ELSE merge_ids(Append(ids_rows, [raw |-> Head(new), id |-> next]), Tail(new), next + 1)

(***************************************************************************)
(* normalize: the general times.  _pickup_dt and _dropoff_dt are what      *)
(* parsedate made of the meter-on and meter-off texts: a datetime, here    *)
(* its time of day, or None (<<>>) for a text that is no date.             *)
(***************************************************************************)
datetime(hour, minute, second) == [hour |-> hour, minute |-> minute, second |-> second]

MeterTimes ==
  {<<datetime(h, m, sec)>> : h \in {10}, m \in 0..59, sec \in {0, 30}} \cup {<<>>}

\* row._pickup_dt.replace(minute=0, second=0) if row._pickup_dt else None
general_time(dt) == IF dt # <<>> THEN <<[dt[1] EXCEPT !.minute = 0, !.second = 0]>> ELSE <<>>

(***************************************************************************)
(* taxi2015_part1 / taxi2015_part2: the loop over the lines of             *)
(* data/merged_trips.csv.  reader([tempcsv]) makes temp the list of the    *)
(* cells of one line; a line is modelled by the number of its cells (a     *)
(* blank line has none) and told from the others by its position.          *)
(***************************************************************************)
\* if len(temp) != 22
TaxiColumns == 22

TaxiLines == {0, TaxiColumns - 1, TaxiColumns, TaxiColumns + 1}

TaxiFiles == SeqsUpTo(TaxiLines, MaxTaxiLines)

(***************************************************************************)
(* State.                                                                  *)
(***************************************************************************)
VARIABLES
  store,    \* committed rows of taxi_trips
  work,     \* taxi_trips as seen by the open connection (uncommitted merges)
  conn,     \* "none", "open" or "closed": the connection of the latest upload
  pc,       \* "idle", "loop" (in todb_upsert's for), "saved", "failed"
  table,    \* data rows of the CSV file being uploaded
  gsize,    \* group_size of the upload
  k,        \* index of the row group the loop is at
  j,        \* index of the row executemany is at, within the group
  sent,     \* the lists handed to executemany by this call, in order
  before,   \* store when the upload began
  last,     \* <<t>>: t is the table of the latest completed upload; <<>>: none
  nup,      \* completed uploads
  nread,    \* CSV rows read so far
  table_name, \* the table_name argument of the upload under way; "": no upload
  into,       \* the table named in 'MERGE INTO {} orig' of todb_upsert's sql; "": none
  view,     \* the AddFieldsView: source, fields, state of the generator self.fields
  cur,      \* <<it>>: it is the iterator of the latest __iter__; <<>>: none yet
  first,    \* <<it>>: the first iterator as it was when the second was made
  csvfiles,   \* the files matched by the patterns of a fromcsvs call, in order
  fieldnames, \* <<names>>: the fieldnames argument of fromcsvs; <<>>: None
  tcat,       \* <<t>>: the table t of fromcsvs; <<>>: None
  nfile,      \* files the loop of fromcsvs has read
  cpc,        \* "idle", "loop" (in fromcsvs's for), "returned"
  feature_mapping, \* the module's cache: entries key, value, and who stored it
  flast,      \* <<call>>: the latest call of a finder and how it went; <<>>: none
  nlook,      \* calls of finders made so far
  outliers,   \* <<call>>: the call of filter_outliers made and its result; <<>>: none
  validated,  \* <<call>>: the call of validate_trip_lengths and its result; <<>>: none
  trips,      \* the committed rows of the trips table, cut to the anonymized columns
  ids,        \* the committed rows of the mapping table of each anonymized column
  nextid,     \* the next value of the auto-incrementing id of each mapping table
  nrun,       \* runs of update_anon made so far
  lastrun,    \* <<run>>: how the latest run of update_anon went; <<>>: no run yet
  normalized, \* <<row>>: the meter times of a row of normalize and its general times
  f_data,     \* the lines of data/merged_trips.csv: the number of cells of each
  nline,      \* lines the for loop of the script has read
  taxi_i,     \* i of the script
  taxi_j,     \* j of the script
  taxidata,   \* positions of the lines made into a TaxiData and worked on, in order
  badcsv,     \* positions of the lines printed after 'Bad csv read', in order
  tpc         \* "idle", "loop" (in the for over f_data), "done"

upvars ==
  <<store, work, conn, pc, table, gsize, k, j, sent, before, last, nup, nread, table_name,
    into>>

afvars == <<view, cur, first>>

catvars == <<csvfiles, fieldnames, tcat, nfile, cpc>>

fvars == <<feature_mapping, flast, nlook>>

stvars == <<outliers, validated>>

anvars == <<trips, ids, nextid, nrun, lastrun>>

novars == <<normalized>>

txvars == <<f_data, nline, taxi_i, taxi_j, taxidata, badcsv, tpc>>

vars == <<upvars, afvars, catvars, fvars, stvars, anvars, novars, txvars>>

\* what the actions of upload leave alone
upload_frame == UNCHANGED <<afvars, catvars, fvars, stvars, anvars, novars, txvars>>

\* what the actions of addfields leave alone
addfields_frame == UNCHANGED <<upvars, catvars, fvars, stvars, anvars, novars, txvars>>

\* what the actions of fromcsvs leave alone
fromcsvs_frame == UNCHANGED <<upvars, afvars, fvars, stvars, anvars, novars, txvars>>

\* what the calls of finders leave alone
finder_frame == UNCHANGED <<upvars, afvars, catvars, stvars, anvars, novars, txvars>>

\* what the statistics functions leave alone
statistics_frame == UNCHANGED <<upvars, afvars, catvars, fvars, anvars, novars, txvars>>

\* what update_anon and the growth of the trips table leave alone
anon_frame == UNCHANGED <<upvars, afvars, catvars, fvars, stvars, novars, txvars>>

\* what normalize leaves alone
normalize_frame == UNCHANGED <<upvars, afvars, catvars, fvars, stvars, anvars, txvars>>

\* what the taxi2015 scripts leave alone
taxi_frame == UNCHANGED <<upvars, afvars, catvars, fvars, stvars, anvars, novars>>

TaxiIdle ==
  /\ f_data = <<>>
  /\ nline = 0
  /\ taxi_i = 0
  /\ taxi_j = 0
  /\ taxidata = <<>>
  /\ badcsv = <<>>
  /\ tpc = "idle"

NormalizeIdle == normalized = <<>>

\* the trips table and the mapping tables as they are created: empty
AnonIdle ==
  /\ trips = <<>>
  /\ ids = [c \in Range(column_table_pairs) |-> <<>>]
  /\ nextid = [c \in Range(column_table_pairs) |-> 1]
  /\ nrun = 0
  /\ lastrun = <<>>

StatisticsIdle == outliers = <<>> /\ validated = <<>>

\* feature_mapping = {} when the module is loaded
FinderIdle ==
  /\ feature_mapping = {}
  /\ flast = <<>>
  /\ nlook = 0

CatIdle ==
  /\ csvfiles = <<>>
  /\ fieldnames = <<>>
  /\ tcat = <<>>
  /\ nfile = 0
  /\ cpc = "idle"

groups == grouper(gsize, values(table))

UploadIdle ==
  /\ store = <<>>
  /\ work = <<>>
  /\ conn = "none"
  /\ pc = "idle"
  /\ table = <<>>
  /\ gsize = 1
  /\ k = 1
  /\ j = 1
  /\ sent = <<>>
  /\ before = <<>>
  /\ last = <<>>
  /\ nup = 0
  /\ nread = 0
  /\ table_name = ""
  /\ into = ""

NoView == [source |-> [hdr |-> <<>>, rows |-> <<>>], fields |-> <<>>, gen |-> "fresh"]

AddFieldsIdle == view = NoView /\ cur = <<>> /\ first = <<>>

InitUpload ==
  UploadIdle /\ AddFieldsIdle /\ CatIdle /\ FinderIdle /\ StatisticsIdle /\ AnonIdle
  /\ NormalizeIdle /\ TaxiIdle

\* upload(): with db_conn(...) as db; t = fromcsv(...); todb_upsert reads the
\* field names and starts the loop over the row groups.  Each run connects
\* anew and sees the committed rows only.
upload ==
  /\ pc = "idle"
  /\ nup < MaxUploads
  /\ \E t \in Tables, g \in 1..MaxGroup :
       /\ nread + Len(t) <= MaxTotalRows
       /\ table' = t
       /\ gsize' = g
       /\ nread' = nread + Len(t)
  /\ \E name \in TableNames :
       /\ table_name' = name
       /\ into' = todb_upsert_table_name(name)
  /\ conn' = "open"
  /\ work' = store
  /\ before' = store
  /\ k' = 1
  /\ j' = 1
  /\ sent' = <<>>
  /\ pc' = "loop"
  /\ UNCHANGED <<store, last, nup>>
  /\ upload_frame

\* db._c.executemany(sql, list_of_rows): the statement runs once per row.
executemany_row ==
  /\ pc = "loop"
  /\ k <= Len(groups)
  /\ LET rows == list_of_rows(groups[k])
     IN  /\ sent' = IF j = 1 THEN Append(sent, rows) ELSE sent
         /\ IF rows = <<>>
            THEN /\ work' = work
                 /\ k' = k + 1
                 /\ j' = 1
            ELSE /\ work' = merge(work, rows[j])
                 /\ IF j = Len(rows)
                    THEN k' = k + 1 /\ j' = 1
                    ELSE k' = k /\ j' = j + 1
  /\ UNCHANGED <<store, conn, pc, table, gsize, before, last, nup, nread, table_name, into>>
  /\ upload_frame

\* The store fails on the row executemany is at: the error leaves
\* todb_upsert and the with-block of upload.
executemany_fails ==
  /\ pc = "loop"
  /\ k <= Len(groups)
  /\ LET rows == list_of_rows(groups[k])
     IN  sent' = IF j = 1 THEN Append(sent, rows) ELSE sent
  /\ pc' = "failed"
  /\ store' = db_conn_exit_store(TRUE, store, work)
  /\ conn' = db_conn_exit_conn(TRUE)
  /\ UNCHANGED <<work, table, gsize, k, j, before, last, nup, nread, table_name, into>>
  /\ upload_frame

\* The error leaves upload(): the locals of the call are gone, and the
\* connection stays as db_conn left it.
upload_raises ==
  /\ pc = "failed"
  /\ pc' = "idle"
  /\ work' = <<>>
  /\ table' = <<>>
  /\ gsize' = 1
  /\ k' = 1
  /\ j' = 1
  /\ sent' = <<>>
  /\ before' = <<>>
  /\ table_name' = ""
  /\ into' = ""
  /\ UNCHANGED <<store, conn, last, nup, nread>>
  /\ upload_frame

\* db.save() after the loop of todb_upsert
todb_upsert_save ==
  /\ pc = "loop"
  /\ k > Len(groups)
  /\ store' = work
  /\ pc' = "saved"
  /\ UNCHANGED <<work, conn, table, gsize, k, j, sent, before, last, nup, nread, table_name,
               into>>
  /\ upload_frame

\* the with-block of upload ends normally: db.save(); db.close(); return t.
\* The locals of the call are gone once it has returned.
db_conn_exit ==
  /\ pc = "saved"
  /\ store' = db_conn_exit_store(FALSE, store, work)
  /\ conn' = db_conn_exit_conn(FALSE)
  /\ pc' = "idle"
  /\ last' = <<table>>
  /\ nup' = nup + 1
  /\ work' = <<>>
  /\ table' = <<>>
  /\ gsize' = 1
  /\ k' = 1
  /\ j' = 1
  /\ sent' = <<>>
  /\ before' = <<>>
  /\ table_name' = ""
  /\ into' = ""
  /\ UNCHANGED nread
  /\ upload_frame

Next ==
  \/ upload
  \/ executemany_row
  \/ executemany_fails
  \/ upload_raises
  \/ todb_upsert_save
  \/ db_conn_exit

Spec == InitUpload /\ [][Next]_vars

(***************************************************************************)
(* AddFieldsView: construction, __iter__ and the steps of iteraddfields.   *)
(***************************************************************************)
\* AddFieldsView(source, *fields): self.source is the stacked source, built
\* lazily; self.fields is a generator expression over the fields given.
AddFieldsView(source, fields) == [source |-> source, fields |-> fields, gen |-> "fresh"]

\* *self.fields in __iter__: a generator gives its items once
unpack_fields(v) == IF v.gen = "fresh" THEN v.fields ELSE <<>>

\* the generator object made by iteraddfields(source, *fields)
NewIterator(fields) ==
  [fields |-> fields, state |-> "new", hdr |-> <<>>, indices |-> <<>>,
   pos |-> 0, rows |-> <<>>, calls |-> <<>>]

InitAddFields ==
  /\ UploadIdle
  /\ \E source \in SourceTables, fields \in FieldLists : view = AddFieldsView(source, fields)
  /\ cur = <<>>
  /\ first = <<>>
  /\ CatIdle
  /\ FinderIdle
  /\ StatisticsIdle
  /\ AnonIdle
  /\ NormalizeIdle /\ TaxiIdle

\* iter(table).  A consumer asks for a new iterator before it has read
\* anything, after it has read the header alone (as fieldnames() does), or
\* after the latest iterator has ended.
AddFieldsView_iter ==
  /\ \/ cur = <<>>
     \/ cur # <<>> /\ cur[1].state \in {"done", "raised"}
     \/ cur # <<>> /\ cur[1].state = "rows" /\ cur[1].pos = 0
  /\ cur' = <<NewIterator(unpack_fields(view))>>
  /\ view' = [view EXCEPT !.gen = "exhausted"]
  /\ first' = IF cur # <<>> /\ first = <<>> THEN cur ELSE first
  /\ addfields_frame

\* first next(): the header is read, the indices resolved, the output header yielded
iteraddfields_header ==
  /\ cur # <<>>
  /\ cur[1].state = "new"
  /\ LET hdr == stack(view.source, missing).hdr
         res == resolve(hdr, cur[1].fields, 1, hdr, <<>>)
     IN  cur' = <<[cur[1] EXCEPT !.state = "rows", !.hdr = res.outhdr,
                                 !.indices = res.indices]>>
  /\ UNCHANGED <<view, first>>
  /\ addfields_frame

\* an exception of a function is caught, its row left out, the loop goes on
after_row_caught(raised) == "rows"

\* the state of the generator after the loop body: nothing catches an
\* exception of a function, it leaves the generator, which is then finished
after_row(raised) == IF raised THEN "raised" ELSE "rows"

\* next(): one source row is read and the output row yielded, unless a
\* function raises, which ends the generator
iteraddfields_row ==
  /\ cur # <<>>
  /\ cur[1].state = "rows"
  /\ cur[1].pos < Len(view.source.rows)
  /\ LET src == stack(view.source, missing)
         flds == [i \in 1..Len(src.hdr) |-> text_type(src.hdr[i])]
         r == cur[1].pos + 1
         row == src.rows[r]
         res == add_to_row(row, flds, cur[1].fields, cur[1].indices, 1, row, <<>>)
         called == [n \in 1..Len(res.calls) |->
                      [r |-> r, field |-> res.calls[n].field,
                       flds |-> res.calls[n].flds, vals |-> res.calls[n].vals]]
     IN  cur' = <<[cur[1] EXCEPT !.pos = r,
                                 !.state = after_row(res.raised),
                                 !.rows = IF res.raised THEN @ ELSE Append(@, res.outrow),
                                 !.calls = @ \o called]>>
  /\ UNCHANGED <<view, first>>
  /\ addfields_frame

\* next() after the last source row: StopIteration
iteraddfields_stop ==
  /\ cur # <<>>
  /\ cur[1].state = "rows"
  /\ cur[1].pos = Len(view.source.rows)
  /\ cur' = <<[cur[1] EXCEPT !.state = "done"]>>
  /\ UNCHANGED <<view, first>>
  /\ addfields_frame

NextAddFields ==
  \/ AddFieldsView_iter
  \/ iteraddfields_header
  \/ iteraddfields_row
  \/ iteraddfields_stop

SpecAddFields == InitAddFields /\ [][NextAddFields]_vars

(***************************************************************************)
(* fromcsvs(filepatterns, fieldnames): the loop over the matched files.    *)
(* The first line of a file has as many cells as the header; it is the     *)
(* header line of a CMT file and a trip of a Verifone file.  The tables    *)
(* are lazy: what is kept in tcat is what iterating the table yields.      *)
(***************************************************************************)
CsvFile(f, lens, withheader) ==
  <<IF withheader THEN CsvHeader ELSE CsvLine(f, 1, Len(CsvHeader))>>
    \o [l \in 1..Len(lens) |-> CsvLine(f, l + 1, lens[l])]

CsvFileLists(withheader) ==
  {[f \in 1..Len(lenss) |-> CsvFile(f, lenss[f], withheader)] :
     lenss \in SeqsUpTo(SeqsUpTo(CsvLineLengths, MaxLines), MaxFiles)}

InitCat ==
  /\ UploadIdle
  /\ AddFieldsIdle
  /\ FinderIdle
  /\ StatisticsIdle
  /\ AnonIdle
  /\ NormalizeIdle /\ TaxiIdle
  /\ \E given \in BOOLEAN :
       /\ fieldnames = IF given THEN <<CsvHeader>> ELSE <<>>
       /\ csvfiles \in CsvFileLists(~given)
  /\ tcat = <<>>
  /\ nfile = 0
  /\ cpc = "loop"

\* one pass of the for loop: read the next file, set its header, concatenate
fromcsvs_file ==
  /\ cpc = "loop"
  /\ nfile < Len(csvfiles)
  /\ tcat' = fromcsvs_cat(tcat, fromcsvs_partial(csvfiles[nfile + 1], fieldnames))
  /\ nfile' = nfile + 1
  /\ UNCHANGED <<csvfiles, fieldnames, cpc>>
  /\ fromcsvs_frame

\* return t
fromcsvs_return ==
  /\ cpc = "loop"
  /\ nfile = Len(csvfiles)
  /\ cpc' = "returned"
  /\ UNCHANGED <<csvfiles, fieldnames, tcat, nfile>>
  /\ fromcsvs_frame

NextCat ==
  \/ fromcsvs_file
  \/ fromcsvs_return

SpecCat == InitCat /\ [][NextCat]_vars

(***************************************************************************)
(* The finders made by find_feature over the collections of the process.   *)
(* All of them read and write the one module-level dict feature_mapping.   *)
(***************************************************************************)
InitFinder ==
  UploadIdle /\ AddFieldsIdle /\ CatIdle /\ FinderIdle /\ StatisticsIdle /\ AnonIdle
  /\ NormalizeIdle /\ TaxiIdle

\* what a call of _finder leaves behind
FinderCall(coll, row, raises, parsed, hit, queried, tested, result) ==
  [coll |-> coll, lat |-> row[1], lng |-> row[2], raises |-> raises, parsed |-> parsed,
   hit |-> hit, queried |-> queried, tested |-> tested, result |-> result]

\* _finder(row) of the finder made for collection coll; row is the pair of
\* the cells row[latcol], row[lngcol]
finder(coll, row) ==
  LET collection == Collections[coll]
      flat == float(row[1])
      flng == float(row[2])
      raises == IF flat.raises # "" THEN flat.raises ELSE flng.raises
      lat == round(flat)
      lng == round(flng)
      ky == key(lat, lng, collection.version)
      cached == CHOOSE e \in feature_mapping : e.key = ky
      pt == point([lat |-> flat, lng |-> flng], [lat |-> lat, lng |-> lng])
      indexed_items == intersection(collection.features, pt.lat, pt.lng)
      found == search(indexed_items, pt.lat, pt.lng, <<>>)
      isnan == lat.kind = "nan" \/ lng.kind = "nan"
  IN  /\ nlook < MaxLookups
      /\ nlook' = nlook + 1
      /\ IF raises = "TypeError"
         THEN \* float(None): the error is not caught and leaves the finder
              /\ flast' = <<FinderCall(coll, row, raises, FALSE, FALSE, FALSE, <<>>, <<>>)>>
              /\ UNCHANGED feature_mapping
         ELSE IF raises = "ValueError"
         THEN \* except ValueError: return None
              /\ flast' = <<FinderCall(coll, row, "", FALSE, FALSE, FALSE, <<>>, <<>>)>>
              /\ UNCHANGED feature_mapping
         ELSE IF key_in(ky, feature_mapping)
         THEN \* return feature_mapping[key]
              /\ flast' = <<FinderCall(coll, row, "", TRUE, TRUE, FALSE, <<>>, cached.value)>>
              /\ UNCHANGED feature_mapping
         ELSE \* search, feature_mapping[key] = feature or None, return it
              /\ flast' = <<FinderCall(coll, row, "", TRUE, FALSE, TRUE,
                                       found.tested, found.result)>>
              /\ feature_mapping' = setitem(feature_mapping,
                   [key |-> ky, value |-> found.result, by |-> coll, row |-> row,
                    serial |-> IF isnan THEN nlook + 1 ELSE 0])
      /\ finder_frame

finder_call == \E coll \in CollectionNames, row \in LatCells \X LngCells : finder(coll, row)

NextFinder == finder_call

SpecFinder == InitFinder /\ [][NextFinder]_vars

(***************************************************************************)
(* The statistics functions, each called once with an input of its domain. *)
(***************************************************************************)
InitStatistics ==
  UploadIdle /\ AddFieldsIdle /\ CatIdle /\ FinderIdle /\ StatisticsIdle /\ AnonIdle
  /\ NormalizeIdle /\ TaxiIdle

filter_outliers_call ==
  /\ StatisticsIdle
  /\ \E vals \in Samples, scale \in Scales :
       outliers' = <<[values |-> vals, scale |-> scale,
                      result |-> filter_outliers(vals, scale)]>>
  /\ UNCHANGED validated
  /\ statistics_frame

validate_trip_lengths_call ==
  /\ StatisticsIdle
  /\ \E rows \in TripTables :
       validated' = <<[rows |-> rows, returned |-> validate_trip_lengths(rows)]>>
  /\ UNCHANGED outliers
  /\ statistics_frame

NextStatistics ==
  \/ filter_outliers_call
  \/ validate_trip_lengths_call

SpecStatistics == InitStatistics /\ [][NextStatistics]_vars

(***************************************************************************)
(* update_anon over a trips table that uploads add rows to.                *)
(***************************************************************************)
InitAnon ==
  UploadIdle /\ AddFieldsIdle /\ CatIdle /\ FinderIdle /\ StatisticsIdle /\ AnonIdle
  /\ NormalizeIdle /\ TaxiIdle

\* an upload commits one more row of the trips table.  Rows are never
\* deleted, and the anonymized columns are identity columns, which the
\* upsert never updates.
trips_insert ==
  /\ Len(trips) < MaxAnonTrips
  /\ \E row \in AnonRows : trips' = Append(trips, row)
  /\ UNCHANGED <<ids, nextid, nrun, lastrun>>
  /\ anon_frame

\* what a run leaves behind: whether it reached db.save(), the trips table
\* it read, and whether the run before it reached db.save() and read the
\* same trips table
AnonRun(saved) ==
  [saved |-> saved, trips |-> trips,
   rerun |-> lastrun # <<>> /\ lastrun[1].saved /\ lastrun[1].trips = trips]

\* update_anon(): every statement is executed and the with-block of db_conn
\* ends with db.save().  The store inserts the new rows of a statement in
\* an order of its choice.
update_anon ==
  /\ nrun < MaxRuns
  /\ nrun' = nrun + 1
  /\ \E new \in [Range(column_table_pairs) ->
                   UNION {Orderings(using(trips, ids[c], c)) : c \in Range(column_table_pairs)}] :
       /\ \A c \in Range(column_table_pairs) : new[c] \in Orderings(using(trips, ids[c], c))
       /\ ids' = [c \in Range(column_table_pairs) |-> merge_ids(ids[c], new[c], nextid[c])]
  /\ nextid' = [c \in Range(column_table_pairs) |-> nextid[c] + (Len(ids'[c]) - Len(ids[c]))]
  /\ lastrun' = <<AnonRun(TRUE)>>
  /\ UNCHANGED trips
  /\ anon_frame

\* the store fails on the statement of the second pair: db.save() is not
\* reached and the rows inserted by the first statement are not committed,
\* but the ids they were given are used up
update_anon_fails ==
  /\ nrun < MaxRuns
  /\ nrun' = nrun + 1
  /\ LET col == column_table_pairs[1]
     IN  nextid' = [nextid EXCEPT ![col] = @ + Cardinality(using(trips, ids[col], col))]
  /\ lastrun' = <<AnonRun(FALSE)>>
  /\ UNCHANGED <<trips, ids>>
  /\ anon_frame

NextAnon ==
  \/ trips_insert
  \/ update_anon
  \/ update_anon_fails

SpecAnon == InitAnon /\ [][NextAnon]_vars

(***************************************************************************)
(* normalize: 'Pickup General Time' and 'Dropoff General Time' of one row. *)
(***************************************************************************)
InitNormalize ==
  UploadIdle /\ AddFieldsIdle /\ CatIdle /\ FinderIdle /\ StatisticsIdle /\ AnonIdle
  /\ NormalizeIdle /\ TaxiIdle

\* the second addfields call of normalize on one row of concat_table
normalize_row ==
  /\ normalized = <<>>
  /\ \E pickup_dt \in MeterTimes, dropoff_dt \in MeterTimes :
       normalized' = <<[pickup_dt |-> pickup_dt, dropoff_dt |-> dropoff_dt,
                        pickup_general_time |-> general_time(pickup_dt),
                        dropoff_general_time |-> general_time(dropoff_dt)]>>
  /\ normalize_frame

NextNormalize == normalize_row

SpecNormalize == InitNormalize /\ [][NextNormalize]_vars

(***************************************************************************)
(* taxi2015_part1.py and taxi2015_part2.py: one run over merged_trips.csv. *)
(* Both scripts have the same loop head; what they do with a TaxiData      *)
(* (counts, derived fields, the output line) is not modelled.              *)
(***************************************************************************)
InitTaxi ==
  /\ UploadIdle /\ AddFieldsIdle /\ CatIdle /\ FinderIdle /\ StatisticsIdle /\ AnonIdle
  /\ NormalizeIdle
  /\ f_data \in TaxiFiles
  /\ nline = 0
  /\ taxi_i = 0
  /\ taxi_j = 0
  /\ taxidata = <<>>
  /\ badcsv = <<>>
  /\ tpc = "loop"

\* one pass of 'for line in f_data'
taxi_line ==
  /\ tpc = "loop"
  /\ nline < Len(f_data)
  /\ nline' = nline + 1
  /\ LET temp == f_data[nline + 1]
     IN IF temp # TaxiColumns
          THEN \* print('Bad csv read'); print(temp); continue
               /\ badcsv' = Append(badcsv, nline + 1)
               /\ UNCHANGED <<taxi_i, taxi_j, taxidata>>
          ELSE IF taxi_i = 0
                 THEN \* i += 1; continue
                      /\ taxi_i' = 1
                      /\ UNCHANGED <<taxi_j, taxidata, badcsv>>
                 ELSE \* data = TaxiData(temp) ... j += 1; i += 1
                      /\ taxidata' = Append(taxidata, nline + 1)
                      /\ taxi_j' = taxi_j + 1
                      /\ taxi_i' = taxi_i + 1
                      /\ UNCHANGED badcsv
  /\ UNCHANGED <<f_data, tpc>>
  /\ taxi_frame

\* the loop ends: print(str(i) + ' records processed'); f_data.close()
taxi_done ==
  /\ tpc = "loop"
  /\ nline = Len(f_data)
  /\ tpc' = "done"
  /\ UNCHANGED <<f_data, nline, taxi_i, taxi_j, taxidata, badcsv>>
  /\ taxi_frame

NextTaxi ==
  \/ taxi_line
  \/ taxi_done

SpecTaxi == InitTaxi /\ [][NextTaxi]_vars

(***************************************************************************)
(* Properties of upload / todb_upsert / db_conn, checked under Spec.       *)
(***************************************************************************)
IdPositions == {i \in 1..Len(columns) : columns[i] \in id_columns}

NonIdPositions == {i \in 1..Len(columns) : columns[i] \notin id_columns}

\* the identity key of a row: its values in the identity columns
Key(row) == [i \in IdPositions |-> row[i]]

NonKey(row) == [i \in NonIdPositions |-> row[i]]

\* equal in all identity columns as the store compares values: NULL equals nothing
SameIdentity(a, b) ==
  \A i \in IdPositions : a[i] # "" /\ b[i] # "" /\ a[i] = b[i]

\* C1: running the upload a second time over the same input table leaves the
\* store as the first run left it (same rows, same contents).
C1_RerunLeavesStore ==
  (pc = "saved" /\ last = <<table>>) => store = before

\* C2: after a first upload into the empty table and a second upload sharing
\* identity keys with it, the store holds exactly one row per identity key and
\* the row of every shared key carries non-identity values of the second upload.
C2_OneRowPerKeyLatestWins ==
  (pc = "saved" /\ nup = 1
     /\ \E a \in 1..Len(last[1]), b \in 1..Len(table) : Key(last[1][a]) = Key(table[b]))
  => /\ \A r \in Range(last[1]) \cup Range(table) :
          Cardinality({i \in 1..Len(store) : Key(store[i]) = Key(r)}) = 1
     /\ \A b \in 1..Len(table) :
          (\E a \in 1..Len(last[1]) : Key(last[1][a]) = Key(table[b]))
          => \A i \in 1..Len(store) :
               Key(store[i]) = Key(table[b])
               => \E c \in 1..Len(table) :
                    Key(table[c]) = Key(table[b]) /\ NonKey(store[i]) = NonKey(table[c])

\* a step of executemany that ran the MERGE for one row
RowStep ==
  /\ pc = "loop" /\ pc' = "loop"
  /\ <<k, j>>' # <<k, j>>
  /\ k <= Len(groups)
  /\ j <= Len(list_of_rows(groups[k]))

\* C3: for each row sent, a store row equal to it in all identity columns gets
\* every non-identity column set to the new row's value and no row is added;
\* with no such store row the row is appended as a new row; the identity
\* columns of existing rows never change.
C3_MatchedUpdatedElseInserted ==
  [][RowStep =>
       LET new == list_of_rows(groups[k])[j]
           matched == {i \in 1..Len(work) : SameIdentity(work[i], new)}
       IN  /\ \A i \in 1..Len(work) : Len(work') >= i /\ Key(work'[i]) = Key(work[i])
           /\ IF matched # {}
              THEN /\ Len(work') = Len(work)
                   /\ \A i \in matched : NonKey(work'[i]) = NonKey(new)
                   /\ \A i \in (1..Len(work)) \ matched : work'[i] = work[i]
              ELSE work' = Append(work, new)]_vars

C3_Witness ==
  /\ pc = "loop" /\ k > Len(groups) /\ before = <<>>
  /\ Len(table) = 3
  /\ SameIdentity(table[1], table[2]) /\ NonKey(table[1]) # NonKey(table[2])
  /\ work = <<table[2], table[3]>>

\* a row with a NULL (an empty value) in one or more identity columns
HasNullIdentity(row) == \E i \in IdPositions : row[i] = ""

C28_MergesIntoNamedTable ==
  pc \in {"loop", "saved", "failed"} => into = table_name

\* C4: every data row is sent exactly once, in input order, in consecutive
\* batches of exactly group_size rows followed by at most one shorter final
\* batch; no batch is empty or holds a fill value; a table without data rows
\* sends no batch.
C4_BatchesCoverTableInOrder ==
  pc \in {"loop", "saved", "failed"} =>
    LET rowsSent == Flatten(sent)
    IN  /\ Len(rowsSent) <= Len(table)
        /\ rowsSent = SubSeq(table, 1, Len(rowsSent))
        /\ \A b \in 1..Len(sent) :
             /\ sent[b] # <<>>
             /\ \A r \in 1..Len(sent[b]) : sent[b][r] # None
             /\ Len(sent[b]) <= gsize
             /\ Len(sent[b]) < gsize => (b = Len(sent) /\ Len(rowsSent) = Len(table))
        /\ pc = "saved" => rowsSent = table
        /\ table = <<>> => sent = <<>>

C4_Witness ==
  /\ pc = "saved" /\ Len(table) = 3 /\ gsize = 2
  /\ Len(sent) = 2 /\ Len(sent[1]) = 2 /\ Len(sent[2]) = 1

C6_ConnectionReleased ==
  pc \in {"idle", "failed"} => conn \in {"none", "closed"}

(***************************************************************************)
(* Properties of addfields, checked under SpecAddFields.                   *)
(***************************************************************************)
\* C7: every row produced by addfields has exactly as many values as the
\* output header has names, also for source rows shorter or longer than the
\* source header and for any fields with default or explicit indices.
\* A ragged source row does not make the iteration fail: with no function
\* that reads a name outside the source header or fails on a value, every
\* row read is produced.
C7_RowLengthIsHeaderLength ==
  cur # <<>> =>
    /\ \A n \in 1..Len(cur[1].rows) : Len(cur[1].rows[n]) = Len(cur[1].hdr)
    /\ (\A i \in 1..Len(cur[1].fields) :
          cur[1].fields[i].value.callable
            => /\ cur[1].fields[i].value.reads \in Range(view.source.hdr)
               /\ cur[1].fields[i].value.fails_on = <<>>)
       => (cur[1].state # "raised" /\ Len(cur[1].rows) = cur[1].pos)

C7_Witness ==
  /\ cur # <<>> /\ cur[1].state = "done"
  /\ Len(cur[1].rows) = 2
  /\ Len(view.source.rows[1]) < Len(view.source.hdr)
  /\ Len(view.source.rows[2]) > Len(view.source.hdr)
  /\ Len(cur[1].fields) = 2
  /\ cur[1].fields[1].index = <<1>>
  /\ cur[1].fields[2].index = <<>>
  /\ cur[1].fields[2].value.callable

\* the header with the names of the first n fields inserted
ActiveHeader(hdr, fields, n) == resolve(hdr, SubSeq(fields, 1, n), 1, hdr, <<>>).outhdr

\* C8 as stated: a computed field's function is invoked with the row bound
\* to the header active at computation time, which holds the fields inserted
\* earlier in the same call.
C8_BoundToActiveHeader ==
  cur # <<>> =>
    \A n \in 1..Len(cur[1].calls) :
      cur[1].calls[n].flds
        = ActiveHeader(view.source.hdr, cur[1].fields, cur[1].calls[n].field - 1)

\* the source row r as addfields reads it: cut or filled up to the header
PaddedSourceRow(r) ==
  [c \in 1..Len(view.source.hdr) |->
     IF c <= Len(view.source.rows[r]) THEN view.source.rows[r][c] ELSE missing]

\* C8 amended: a computed field's function is invoked with the source row
\* (cut or filled up to the source header) bound to the source header: it
\* reads source fields only, and reading the name of a field inserted earlier
\* in the same call raises and ends the iteration.
C8_BoundToSourceHeader ==
  cur # <<>> =>
    /\ \A n \in 1..Len(cur[1].calls) :
         LET call == cur[1].calls[n]
             reads == cur[1].fields[call.field].value.reads
         IN  /\ call.flds = view.source.hdr
             /\ call.vals = PaddedSourceRow(call.r)
             /\ reads \notin Range(view.source.hdr)
                  => (cur[1].state = "raised" /\ n = Len(cur[1].calls))
    /\ cur[1].state = "raised"
         => LET call == cur[1].calls[Len(cur[1].calls)]
                value == cur[1].fields[call.field].value
            IN  \/ value.reads \notin Range(view.source.hdr)
                \/ <<call.vals[IndexOf(call.flds, value.reads)]>> = value.fails_on

C8_Witness ==
  /\ cur # <<>> /\ cur[1].state = "raised"
  /\ Len(cur[1].fields) = 2
  /\ cur[1].fields[1].name = "x"
  /\ cur[1].fields[2].value.reads = "x"
  /\ cur[1].calls[Len(cur[1].calls)].field = 2

\* C9: a second iteration of the same addfields table yields the same header
\* (added fields included) and the same rows as the first.
C9_SecondIterationSame ==
  (first # <<>> /\ cur[1].state # "new") =>
    /\ cur[1].hdr = first[1].hdr
    /\ \A n \in 1..Len(cur[1].rows) :
         n <= Len(first[1].rows) => cur[1].rows[n] = first[1].rows[n]

AllDefault(fields) == \A i \in 1..Len(fields) : fields[i].index = <<>>

\* C10: fields that all use the default index are appended to the header in
\* the order given: fields [A, B] yield [..., A, B].
C10_DefaultsAppendInOrder ==
  (cur # <<>> /\ cur[1].state # "new" /\ AllDefault(cur[1].fields)) =>
    cur[1].hdr = view.source.hdr \o [i \in 1..Len(cur[1].fields) |-> cur[1].fields[i].name]

C10_Witness ==
  /\ cur # <<>> /\ cur[1].state = "done"
  /\ Len(cur[1].fields) = 2 /\ AllDefault(cur[1].fields)
  /\ cur[1].hdr = view.source.hdr \o <<"x", "y">>
  /\ Len(cur[1].rows) = 2

\* the value field gives to the n-th row: its fixed value, or what its
\* function reads in the source row
FieldValueOf(fld, n) ==
  IF fld.value.callable
  THEN PaddedSourceRow(n)[IndexOf(view.source.hdr, fld.value.reads)]
  ELSE fld.value.fixed

\* C27: in every output row the value of each added field is at the position
\* of that field's name in the output header, the source values are at the
\* positions of their own names, and the source names keep their order, for
\* any mix of default and explicit indices (beyond the header or negative).
C27_ValuesUnderTheirNames ==
  cur # <<>> =>
    \A n \in 1..Len(cur[1].rows) :
      LET row == cur[1].rows[n]
          hdr == cur[1].hdr
          src == view.source.hdr
      IN  /\ \A i \in 1..Len(cur[1].fields) :
               row[IndexOf(hdr, cur[1].fields[i].name)] = FieldValueOf(cur[1].fields[i], n)
          /\ \A c \in 1..Len(src) : row[IndexOf(hdr, src[c])] = PaddedSourceRow(n)[c]
          /\ \A c1, c2 \in 1..Len(src) :
               c1 < c2 => IndexOf(hdr, src[c1]) < IndexOf(hdr, src[c2])

\* a negative index and one beyond the header: (a, b) has become (a, x, b, y)
C27_Witness ==
  /\ cur # <<>> /\ cur[1].state = "done"
  /\ Len(cur[1].fields) = 2
  /\ cur[1].fields[1].index = <<-1>> /\ ~cur[1].fields[1].value.callable
  /\ cur[1].fields[2].index = <<7>> /\ cur[1].fields[2].value.callable
  /\ cur[1].hdr = <<"a", "x", "b", "y">>
  /\ Len(cur[1].rows) = 2
  /\ cur[1].rows[1] = <<SourceRow(1, 1)[1], FixedValue, missing, SourceRow(1, 1)[1]>>

\* C19 as stated: a failure of a computed field's function on one row is
\* confined to that row: it does not end the iteration, and the rows after
\* it are still produced.
C19_FailureIsRowScoped ==
  cur # <<>> => ~(cur[1].state = "raised" /\ cur[1].pos < Len(view.source.rows))

\* C19 amended: a failure of a computed field's function on one row is not
\* row-scoped: the exception leaves the iteration at that row and ends it.
\* The rows before it have been produced; that row and the rows after it
\* are not produced.
C19_FailureEndsIteration ==
  cur # <<>> =>
    /\ Len(cur[1].rows) # cur[1].pos
         => (cur[1].state = "raised" /\ Len(cur[1].rows) = cur[1].pos - 1)
    /\ cur[1].state = "raised" => Len(cur[1].rows) = cur[1].pos - 1
    /\ \A n \in 1..Len(cur[1].rows) :
         \A c \in 1..Len(view.source.hdr) :
           PaddedSourceRow(n)[c] \in Range(cur[1].rows[n])

C19_Witness ==
  /\ cur # <<>> /\ cur[1].state = "raised"
  /\ cur[1].pos = 2 /\ Len(cur[1].rows) = 1
  /\ Len(view.source.rows) = 2
  /\ \E i \in 1..Len(cur[1].fields) : cur[1].fields[i].value.fails_on # <<>>

(***************************************************************************)
(* Properties of fromcsvs and petl.cat, checked under SpecCat.             *)
(***************************************************************************)
\* the data rows of the i-th table concatenated
SourceRows(i) == fromcsvs_partial(csvfiles[i], fieldnames).rows

\* a row cut or filled up with the missing value to the length of the header
Squared(row) ==
  [c \in 1..Len(CsvHeader) |-> IF c <= Len(row) THEN row[c] ELSE missing]

\* C11 as stated: concatenating tables with the same header yields that
\* header once, then every row of the first source in its order, then every
\* row of the next, and so on: no row dropped, duplicated, altered or reordered.
C11_RowsPassUnchanged ==
  (cpc = "returned" /\ Len(csvfiles) >= 2) =>
    /\ tcat[1].hdr = CsvHeader
    /\ tcat[1].rows = Flatten([i \in 1..Len(csvfiles) |-> SourceRows(i)])

\* C11 amended: concatenating two or more tables with the same header yields
\* that header once, then every row of the first source in its order, then
\* every row of the next, and so on, none dropped, duplicated or reordered;
\* each row is cut or filled up with None to the length of the header, so a
\* row as long as the header passes unchanged.
C11_RowsPassSquaredInOrder ==
  (cpc = "returned" /\ Len(csvfiles) >= 2) =>
    /\ tcat[1].hdr = CsvHeader
    /\ tcat[1].rows =
         Flatten([i \in 1..Len(csvfiles) |->
                    [r \in 1..Len(SourceRows(i)) |-> Squared(SourceRows(i)[r])]])
    /\ \A n \in 1..Len(tcat[1].rows) :
         \A i \in 1..Len(csvfiles) : \A r \in 1..Len(SourceRows(i)) :
           (Len(SourceRows(i)[r]) = Len(CsvHeader) /\ tcat[1].rows[n][1] = SourceRows(i)[r][1])
             => tcat[1].rows[n] = SourceRows(i)[r]

C11_Witness ==
  /\ cpc = "returned" /\ Len(csvfiles) = 2 /\ fieldnames = <<>>
  /\ Len(SourceRows(1)) = 2 /\ Len(SourceRows(2)) = 2
  /\ Len(SourceRows(1)[1]) < Len(CsvHeader)
  /\ Len(SourceRows(1)[2]) = Len(CsvHeader)
  /\ Len(SourceRows(2)[1]) > Len(CsvHeader)
  /\ Len(tcat[1].rows) = 4
  /\ tcat[1].rows[2] = SourceRows(1)[2]

\* C12: fromcsvs with fieldnames pushes the names on as the header of each
\* file's table: every line of every matched file, each file's first line
\* included, is a data row of the result.
C12_EveryLineIsADataRow ==
  (cpc = "returned" /\ fieldnames # <<>> /\ tcat # <<>>) =>
    /\ tcat[1].hdr = fieldnames[1]
    /\ \A f \in 1..Len(csvfiles) : \A l \in 1..Len(csvfiles[f]) :
         \E r \in 1..Len(tcat[1].rows) :
           tcat[1].rows[r] \in {csvfiles[f][l], Squared(csvfiles[f][l])}

(***************************************************************************)
(* Properties of the finders of find_feature, checked under SpecFinder.    *)
(***************************************************************************)
\* what a search of the index of collection coll gives for the cells of a
\* row when nothing is cached
Uncached(coll, row) ==
  LET flat == float(row[1])
      flng == float(row[2])
      pt == point([lat |-> flat, lng |-> flng], [lat |-> round(flat), lng |-> round(flng)])
  IN  search(intersection(Collections[coll].features, pt.lat, pt.lng), pt.lat, pt.lng, <<>>).result

\* every lookup that filled the cache was made against collection coll
OnlyCollection(coll) == \A e \in feature_mapping : e.by = coll

\* C13: for a fixed collection and index the finder is deterministic and
\* idempotent: after any sequence of earlier lookups against it, a lookup of
\* (lat, lng) returns what an uncached search of the index returns for that
\* point, be the answer cached or not, so the order of lookups does not matter.
C13_CachedEqualsUncached ==
  (flast # <<>> /\ flast[1].parsed /\ OnlyCollection(flast[1].coll)) =>
    flast[1].result = Uncached(flast[1].coll, <<flast[1].lat, flast[1].lng>>)

C13_Witness ==
  /\ flast # <<>> /\ flast[1].hit /\ OnlyCollection(flast[1].coll)
  /\ nlook = 2
  /\ flast[1].lat.num = 2 /\ flast[1].lng.num = 0
  /\ flast[1].result = <<>>
  /\ \E e \in feature_mapping :
       /\ e.key.lat = [kind |-> "finite", n |-> Unit]
       /\ e.row[1].num = 4

\* the multiple of the rounding unit nearest to n
Nearest(n) ==
  CHOOSE m \in {Unit * q : q \in 0..(n + 1)} :
    \A o \in {Unit * q : q \in 0..(n + 1)} :
      (IF m >= n THEN m - n ELSE n - m) <= (IF o >= n THEN o - n ELSE n - o)

\* the point of the call is in the interior of the rectangle of feature
InteriorRaw(feature, call) ==
  /\ call.lat.kind = "num" /\ call.lng.kind = "num"
  /\ feature.lat[1] < call.lat.num /\ call.lat.num < feature.lat[2]
  /\ feature.lng[1] < call.lng.num /\ call.lng.num < feature.lng[2]

\* the point of the call, rounded, is in the interior of the rectangle
InteriorRounded(feature, call) ==
  /\ call.lat.kind = "num" /\ call.lng.kind = "num"
  /\ feature.lat[1] < Nearest(call.lat.num) /\ Nearest(call.lat.num) < feature.lat[2]
  /\ feature.lng[1] < Nearest(call.lng.num) /\ Nearest(call.lng.num) < feature.lng[2]

\* C14 as stated: a point in the interior of polygon P resolves to P, and
\* resolving it a second time returns the identical feature object.
C14_InteriorResolvesToP ==
  (flast # <<>> /\ OnlyCollection(flast[1].coll)) =>
    \A P \in Range(Collections[flast[1].coll].features) :
      InteriorRaw(P, flast[1]) => flast[1].result = <<P>>

\* C14 amended: a point whose coordinates, rounded to ndigits decimal places,
\* lie in the interior of polygon P of a collection of disjoint polygons
\* resolves to P, and resolving it a second time returns the identical
\* feature object (lookups all made against that collection).
C14_RoundedInteriorResolvesToP ==
  (flast # <<>> /\ OnlyCollection(flast[1].coll)) =>
    \A P \in Range(Collections[flast[1].coll].features) :
      InteriorRounded(P, flast[1]) => flast[1].result = <<P>>

C14_Witness ==
  /\ flast # <<>> /\ flast[1].hit /\ OnlyCollection("c1") /\ flast[1].coll = "c1"
  /\ flast[1].lat.num = 5 /\ flast[1].lng.num = 0
  /\ flast[1].result = <<Collections.c1.features[2]>>
  /\ \E e \in feature_mapping : e.row = <<flast[1].lat, flast[1].lng>>

\* the cell is not a finite number: empty or other text, None, nan, infinity
NotFinite(cell) == cell.kind # "num"

\* C15: the finder returns None without raising whenever the latitude or the
\* longitude of the row is not a finite number.
C15_NotFiniteGivesNone ==
  (flast # <<>> /\ (NotFinite(flast[1].lat) \/ NotFinite(flast[1].lng))) =>
    (flast[1].raises = "" /\ flast[1].result = <<>>)

\* float() makes a number of the cell: a number, or the text nan or inf
Parsable(cell) == cell.kind = "num" \/ (cell.kind = "text" /\ cell.text \in {"nan", "inf"})

\* the coordinate of a parsable cell, rounded to the nearest unit
Rounded(cell) ==
  IF cell.kind = "num" THEN [kind |-> "finite", n |-> Nearest(cell.num)]
  ELSE [kind |-> cell.text, n |-> 0]

\* the key (rounded lat, rounded lng, collection version) of a call
KeyOf(call) ==
  [lat |-> Rounded(call.lat), lng |-> Rounded(call.lng),
   version |-> Collections[call.coll].version]

\* no coordinate of the key is NaN; a key with a NaN in it equals no key, not
\* even itself, so the cache never holds an entry for it
Comparable(ky) == ky.lat.kind # "nan" /\ ky.lng.kind # "nan"

\* a step that is a call of a finder; flast' is the call
FinderStep == nlook' = nlook + 1

\* the call has parsable coordinates
ParsableCall(call) == Parsable(call.lat) /\ Parsable(call.lng)

\* C23: when the cache already holds an entry for the key (rounded lat,
\* rounded lng, collection version) of a call, the finder returns the cached
\* outcome, a cached None included, without querying the bounding-box index
\* and without running any containment test.
C23_CachedOutcomeWithoutIndex ==
  [][FinderStep =>
       LET call == flast'[1]
           held == {e \in feature_mapping : e.key = KeyOf(call)}
       IN  (ParsableCall(call) /\ Comparable(KeyOf(call)) /\ held # {}) =>
             /\ call.raises = ""
             /\ ~call.queried
             /\ call.tested = <<>>
             /\ \A e \in held : call.result = e.value
             /\ feature_mapping' = feature_mapping]_vars

\* a second lookup of latitude inf returned the None the first one cached
C23_Witness ==
  /\ flast # <<>> /\ flast[1].hit /\ ~flast[1].queried
  /\ nlook = 2
  /\ flast[1].lat = Cell("text", "inf", 0)
  /\ flast[1].result = <<>>
  /\ \E e \in feature_mapping : e.key = KeyOf(flast[1]) /\ e.value = <<>>

\* C24: every call with parsable coordinates ends with a cache entry for its
\* key that holds the outcome it returned, a feature or None; an entry the
\* cache holds is never removed and never replaced by a different value.
C24_OutcomeCachedAndKept ==
  [][FinderStep =>
       LET call == flast'[1]
       IN  /\ feature_mapping \subseteq feature_mapping'
           /\ \A e1, e2 \in feature_mapping' :
                (e1.key = e2.key /\ Comparable(e1.key)) => e1 = e2
           /\ ParsableCall(call) =>
                \E e \in feature_mapping' :
                  e.key = KeyOf(call) /\ e.value = call.result]_vars

\* two calls have left two entries, one holding a feature and one holding None
C24_Witness ==
  /\ flast # <<>> /\ flast[1].queried /\ flast[1].result = <<>>
  /\ nlook = 2
  /\ Cardinality(feature_mapping) = 2
  /\ \E e \in feature_mapping : e.value # <<>>
  /\ \E e \in feature_mapping : e.key = KeyOf(flast[1]) /\ e.value = <<>>

\* the point of the call lies outside the bounding box of feature
OutsideRaw(feature, call) ==
  /\ call.lat.kind = "num" /\ call.lng.kind = "num"
  /\ \/ call.lat.num < feature.lat[1] \/ call.lat.num > feature.lat[2]
     \/ call.lng.num < feature.lng[1] \/ call.lng.num > feature.lng[2]

\* the point of the call, rounded, lies outside the bounding box of feature
OutsideRounded(feature, call) ==
  /\ call.lat.kind = "num" /\ call.lng.kind = "num"
  /\ \/ Nearest(call.lat.num) < feature.lat[1] \/ Nearest(call.lat.num) > feature.lat[2]
     \/ Nearest(call.lng.num) < feature.lng[1] \/ Nearest(call.lng.num) > feature.lng[2]

\* C25 as stated: for a point outside the bounding box of every polygon in
\* the index the finder returns None without any containment test.
C25_OutsideGivesNoneUntested ==
  flast # <<>> =>
    ((\A P \in Range(Collections[flast[1].coll].features) : OutsideRaw(P, flast[1]))
       => (flast[1].result = <<>> /\ flast[1].tested = <<>>))

\* C25 amended: for a point whose coordinates, rounded to ndigits decimal
\* places, lie outside the bounding box of every polygon in the index, the
\* finder returns None without any containment test (lookups all made
\* against that collection).
C25_RoundedOutsideGivesNoneUntested ==
  (flast # <<>> /\ OnlyCollection(flast[1].coll)) =>
    ((\A P \in Range(Collections[flast[1].coll].features) : OutsideRounded(P, flast[1]))
       => (flast[1].result = <<>> /\ flast[1].tested = <<>>))

\* the index of c1 was queried for a point right of all its rectangles
C25_Witness ==
  /\ flast # <<>> /\ flast[1].coll = "c1" /\ OnlyCollection("c1")
  /\ flast[1].queried
  /\ flast[1].lat.num = 1 /\ flast[1].lng.num = Unit + 2
  /\ \A P \in Range(Collections.c1.features) : OutsideRounded(P, flast[1])
  /\ flast[1].result = <<>> /\ flast[1].tested = <<>>

\* C26: a finder built for collection C returns a feature of C or None, never
\* a feature of another collection, whatever lookups were made before
\* against another collection that carries the same version tag.
C26_ResultFromOwnCollection ==
  (flast # <<>> /\ flast[1].result # <<>>) =>
    \E P \in Range(Collections[flast[1].coll].features) : flast[1].result = <<P>>

(***************************************************************************)
(* Properties of filter_outliers and validate_trip_lengths, checked under  *)
(* SpecStatistics.                                                         *)
(***************************************************************************)
\* the k-th smallest value of a sample
OrderStatistic(vals, kth) ==
  CHOOSE x \in Range(vals) :
    /\ Cardinality({i \in 1..Len(vals) : vals[i] < x}) < kth
    /\ kth <= Cardinality({i \in 1..Len(vals) : vals[i] <= x})

\* twice the median: the middle value, or the mean of the two middle values
TwiceMedian(vals) ==
  LET n == Len(vals)
  IN  IF n % 2 = 1 THEN 2 * OrderStatistic(vals, (n + 1) \div 2)
      ELSE OrderStatistic(vals, n \div 2) + OrderStatistic(vals, n \div 2 + 1)

\* |v - median(vals)| <= scale * MAD, all of it multiplied by four
WithinMAD(v, vals, scale) ==
  LET m2 == TwiceMedian(vals)
      mad4 == TwiceMedian([i \in 1..Len(vals) |-> abs(2 * vals[i] - m2)])
  IN  2 * abs(2 * v - m2) <= scale * mad4

\* kept is vals without the values at the positions outside of keep
RECURSIVE IsSubsequenceAt(_, _, _, _)
IsSubsequenceAt(kept, vals, keep, i) ==
  IF i > Len(vals) THEN kept = <<>>
  ELSE IF i \in keep
       THEN kept # <<>> /\ Head(kept) = vals[i] /\ IsSubsequenceAt(Tail(kept), vals, keep, i + 1)
       ELSE IsSubsequenceAt(kept, vals, keep, i + 1)

\* C16: filter_outliers(values, scale) returns exactly the values v with
\* |v - median(values)| <= scale * MAD, in input order and with their
\* multiplicity; filter_outliers([1,2,3,4,100], 2) returns (1,2,3,4).
C16_KeepsExactlyValuesWithinMAD ==
  outliers # <<>> =>
    LET call == outliers[1]
    IN  /\ IsSubsequenceAt(call.result, call.values,
                           {i \in 1..Len(call.values) :
                              WithinMAD(call.values[i], call.values, call.scale)}, 1)
        /\ (call.values = <<1, 2, 3, 4, 100>> /\ call.scale = 2)
             => call.result = <<1, 2, 3, 4>>

C16_Witness ==
  /\ outliers # <<>>
  /\ outliers[1].values = <<1, 2, 3, 4, 100>> /\ outliers[1].scale = 2
  /\ outliers[1].result = <<1, 2, 3, 4>>

\* the positions of the values of a sample that are closest to its median
ClosestToMedian(vals) ==
  {i \in 1..Len(vals) :
     \A o \in 1..Len(vals) :
       abs(2 * vals[i] - TwiceMedian(vals)) <= abs(2 * vals[o] - TwiceMedian(vals))}

\* C30: for a non-empty sample and scale >= 1 the result of filter_outliers
\* is not empty: the value closest to the median is kept, also when the MAD
\* is 0 and when the sample has even length; so every source of the table of
\* validate_trip_lengths has a sample to take mean and deviation of.
C30_KeepsValueClosestToMedian ==
  /\ (outliers # <<>> /\ outliers[1].values # <<>> /\ outliers[1].scale >= 1) =>
       /\ outliers[1].result # <<>>
       /\ \A i \in ClosestToMedian(outliers[1].values) :
            outliers[1].values[i] \in Range(outliers[1].result)
  /\ validated # <<>> =>
       \A g \in 1..Len(validated[1].returned.table) :
         validated[1].returned.table[g].mean.den > 0

\* an even sample whose median, 2.5, is none of its values: 2 and 3 are kept
C30_Witness ==
  /\ outliers # <<>>
  /\ outliers[1].values = <<1, 2, 3, 100>> /\ outliers[1].scale = 1
  /\ TwiceMedian(outliers[1].values) = 5
  /\ outliers[1].result = <<2, 3>>

\* the sources that have rows in the file
SourcesOf(rows) == {rows[i][2] : i \in 1..Len(rows)}

\* the sample of a source as the statistics are taken of it
FilteredSample(rows, source) == filter_outliers(lengths_of(rows, source), 2)

\* |mean(a) - mean(b)| > sd, for the population standard deviation sd of s:
\* with A, B the sums and na, nb the sizes of a and b, and S, Q, n the sum,
\* the sum of squares and the size of s,
\*   (A nb - B na)^2 / (na nb)^2 > (n Q - S^2) / n^2
MeansFartherThanStd(a, b, smp) ==
  LET n == Len(smp)
      var_num == n * sum([i \in 1..n |-> smp[i] * smp[i]]) - sum(smp) * sum(smp)
      d == sum(a) * Len(b) - sum(b) * Len(a)
  IN  d * d * n * n > var_num * Len(a) * Len(a) * Len(b) * Len(b)

\* the means of two sources differ by more than the smaller of their two
\* standard deviations
Differ(rows, s1, s2) ==
  LET a == FilteredSample(rows, s1)
      b == FilteredSample(rows, s2)
  IN  MeansFartherThanStd(a, b, a) \/ MeansFartherThanStd(a, b, b)

\* C17: validate_trip_lengths returns the statistics table and a list with
\* exactly one message for each unordered pair of sources whose means differ
\* by more than the smaller of their standard deviations and none for any
\* other pair; it returns normally when there are violations; the list is
\* empty when there is one source.
C17_OneMessagePerDifferingPair ==
  validated # <<>> =>
    LET rows == validated[1].rows
        ret == validated[1].returned
    IN  /\ {ret.table[i].Data_Source : i \in 1..Len(ret.table)} = SourcesOf(rows)
        /\ Len(ret.table) = Cardinality(SourcesOf(rows))
        /\ \A m \in 1..Len(ret.errors) :
             /\ ret.errors[m][1] # ret.errors[m][2]
             /\ {ret.errors[m][1], ret.errors[m][2]} \subseteq SourcesOf(rows)
        /\ \A s1 \in SourcesOf(rows), s2 \in SourcesOf(rows) :
             s1 # s2 =>
               Cardinality({m \in 1..Len(ret.errors) :
                              {ret.errors[m][1], ret.errors[m][2]} = {s1, s2}})
                 = IF Differ(rows, s1, s2) THEN 1 ELSE 0
        /\ Cardinality(SourcesOf(rows)) = 1 => ret.errors = <<>>

C17_Witness ==
  /\ validated # <<>>
  /\ Cardinality(SourcesOf(validated[1].rows)) = 3
  /\ Len(validated[1].returned.errors) = 2
  /\ \E s1 \in Range(DataSources), s2 \in Range(DataSources) :
       s1 # s2 /\ ~Differ(validated[1].rows, s1, s2)

(***************************************************************************)
(* Properties of update_anon, checked under SpecAnon.                      *)
(***************************************************************************)
RawValues(ids_rows) == {ids_rows[m].raw : m \in 1..Len(ids_rows)}

IdValues(ids_rows) == {ids_rows[m].id : m \in 1..Len(ids_rows)}

\* C18: update_anon is append-only: no mapping row is ever updated or
\* deleted, so a raw value keeps its id over any number of later runs; rows
\* are added only for raw values of the trips table that had no mapping yet,
\* never for a null raw value, and never with an id used before.
C18_AppendOnly ==
  [][\A c \in Range(column_table_pairs) :
       /\ Len(ids'[c]) >= Len(ids[c])
       /\ \A m \in 1..Len(ids[c]) : ids'[c][m] = ids[c][m]
       /\ \A m \in (Len(ids[c]) + 1)..Len(ids'[c]) :
            /\ ids'[c][m].raw # ""
            /\ ids'[c][m].raw \notin RawValues(ids[c])
            /\ ids'[c][m].raw \in {trips[n][c] : n \in 1..Len(trips)}
            /\ ids'[c][m].id \notin IdValues(ids[c])
            /\ \A o \in (Len(ids[c]) + 1)..Len(ids'[c]) :
                 o # m => (ids'[c][o].raw # ids'[c][m].raw /\ ids'[c][o].id # ids'[c][m].id)]_vars

C18_Witness ==
  /\ nrun = 2
  /\ Len(trips) = 3
  /\ \E n \in 1..Len(trips) : trips[n].Medallion = ""
  /\ Len(ids.Medallion) = 2
  /\ ids.Medallion[1] = [raw |-> "M2", id |-> 1]
  /\ ids.Medallion[2] = [raw |-> "M1", id |-> 2]
  /\ Len(ids.Chauffeur_No) = 1

\* a step that is a run of update_anon that reached db.save()
SavedRun == nrun' = nrun + 1 /\ lastrun'[1].saved

\* C29: after a run of update_anon each distinct non-null raw value of an
\* anonymized column of the trips table has exactly one mapping row, and a
\* run made with the trips table as the run before it left it inserts no
\* rows.
C29_OneMappingRowPerValue ==
  [][SavedRun =>
       \A c \in Range(column_table_pairs) :
         /\ \A v \in {trips[n][c] : n \in 1..Len(trips)} \ {""} :
              Cardinality({m \in 1..Len(ids'[c]) : ids'[c][m].raw = v}) = 1
         /\ lastrun'[1].rerun => ids'[c] = ids[c]]_vars

\* a second run over an unchanged trips table of three rows, two of them
\* with the same Medallion, has been saved
C29_Witness ==
  /\ nrun = 2
  /\ lastrun # <<>> /\ lastrun[1].saved /\ lastrun[1].rerun
  /\ Len(trips) = 3
  /\ trips[1].Medallion = "M1" /\ trips[2].Medallion = "M2" /\ trips[3].Medallion = "M1"
  /\ Len(ids.Medallion) = 2
  /\ Len(ids.Chauffeur_No) = 1

(***************************************************************************)
(* Properties of normalize, checked under SpecNormalize.                   *)
(***************************************************************************)
SecondsOfDay(dt) == 3600 * dt.hour + 60 * dt.minute + dt.second

\* general is dt with its minutes rounded to the nearest quarter of an hour:
\* a time on a quarter, no more than seven and a half minutes from dt
NearestQuarter(dt, general) ==
  /\ general # <<>>
  /\ general[1].second = 0
  /\ general[1].minute \in {0, 15, 30, 45}
  /\ abs(SecondsOfDay(general[1]) - SecondsOfDay(dt[1])) * 2 <= 15 * 60

\* C20: normalize rounds the minutes of the meter-on and meter-off times to
\* the nearest 15 minutes in 'Pickup General Time' and 'Dropoff General Time'.
C20_GeneralTimeNearestQuarter ==
  normalized # <<>> =>
    /\ normalized[1].pickup_dt # <<>>
         => NearestQuarter(normalized[1].pickup_dt, normalized[1].pickup_general_time)
    /\ normalized[1].dropoff_dt # <<>>
         => NearestQuarter(normalized[1].dropoff_dt, normalized[1].dropoff_general_time)

(***************************************************************************)
(* Properties of the taxi2015 scripts, checked under SpecTaxi.             *)
(***************************************************************************)
\* C21: a line whose column count is not 22 is skipped and the loop goes on
\* with the next line; the only line of 22 columns that is skipped is the
\* file's header (its first line), so every 22-column data line is worked
\* on, whatever the header line looks like.
C21_Every22ColumnDataLineProcessed ==
  tpc = "done" =>
    /\ \A p \in 1..Len(f_data) :
         f_data[p] # TaxiColumns => p \notin Range(taxidata)
    /\ \A p \in 2..Len(f_data) :
         f_data[p] = TaxiColumns => p \in Range(taxidata)

====
